---- MODULE Spec2Model ----
(***************************************************************************)
(* Model of the auto-reload-from-disk extension (src/src/extension.ts).    *)
(*                                                                         *)
(* The extension runs on one thread.  A handler runs without interruption  *)
(* up to its next `await`; every action below is one such uninterrupted    *)
(* run: a host event handler from its entry to its first await, or the     *)
(* continuation of a suspended async function from one await to the next.  *)
(*                                                                         *)
(* A file is identified by its normalized path (a key).  mtimes and file   *)
(* contents are both represented by a per-file version number that every   *)
(* write to the file increases.  A host revert command takes effect on the *)
(* buffer at the moment it is issued and completes (resolves or rejects)   *)
(* in a later step.                                                        *)
(***************************************************************************)
EXTENDS Integers, Sequences, FiniteSets, Bags, TLC

VARIABLES
    \* ---- host editor and file system
    open,               \* key -> a text document for the file is open
    dirty,              \* key -> document.isDirty
    disk,               \* key -> version (mtime) of the file on disk
    buf,                \* key -> version of the file shown by the open buffer
    pendingEvents,      \* key -> push sources that owe an event for a write to the file
    active,             \* key of window.activeTextEditor's document, or None
    now,                \* Date.now()
    cfg,                \* the autoReloadFromDisk.* settings
    hostHasRevertResource,  \* the host exposes workbench.action.files.revertResource
    \* ---- state of activate()'s closure
    isRuntimeEnabled,
    workspaceWatcher,   \* NoWatcher or [id, glob]
    pollHandle,         \* NoTimer or [id, interval]
    pollInProgress,
    externalWatchers,   \* keys of the Map<string, fs.FSWatcher>
    liveWatchers,       \* key -> number of fs.FSWatcher objects created and not closed
    knownMtimes,        \* key -> version or Absent
    inFlight,           \* Set<string>
    lastEventAt,        \* key -> time or Absent
    lastDirtyNotifyAt,  \* key -> time or Absent
    syncQueued,         \* reconciliations chained on syncWatchersQueue, not yet started
    sync,               \* the running syncExternalWatchers, suspended on a stat, or Idle
    sweeps,             \* bag of running pollForExternalChanges, each suspended on a stat
    evals,              \* key -> pc -> number of maybeReloadForUri calls suspended there
    saveRefresh,        \* key -> number of onSave refreshKnownMtime calls awaiting stat
    \* ---- history (not read by the program)
    lastPromptAt,       \* key -> time of the event that raised the last prompt, or Absent
    lastDecisionAt,     \* key -> time of the event of the last reload-or-prompt decision
    attachFailed,       \* keys whose latest fs.watch attach threw
    restarted,          \* the runtime has been stopped and started again
    last                \* what the most recent step did (see Quiet)

vars == <<open, dirty, disk, buf, pendingEvents, active, now, cfg,
          hostHasRevertResource,
          isRuntimeEnabled, workspaceWatcher, pollHandle, pollInProgress,
          externalWatchers, liveWatchers, knownMtimes, inFlight, lastEventAt,
          lastDirtyNotifyAt, syncQueued, sync, sweeps, evals, saveRefresh,
          lastPromptAt, lastDecisionAt, attachFailed, restarted, last>>

----------------------------------------------------------------------------
(* Bounds of the model *)

StartTime == 10000      \* Date.now() at activation (any value >= the cooldown)
MaxVer == 2             \* writes to one file
MaxQueue == 1           \* reconciliations waiting on the chain
MaxEvals == 2           \* suspended maybeReloadForUri calls per key
MaxSweeps == 2          \* suspended poll sweeps
MaxRefresh == 1         \* onSave refreshes awaiting their stat, per key

(* Program constants *)

DIRTY_NOTIFY_COOLDOWN_MS == 4000
DebounceSetting == 300
DebounceFloor == 50
DebounceCeil == 5000
PollFloor == 250
PollCeil == 60000

Keys == {"a", "b"}
KeyOrder == <<"a", "b">>        \* order of workspace.textDocuments
None == "none"
Absent == 0 - 1
NoGap == 0 - 1
Globs == {"**/*", "src/**"}
PollSettings == {1000, 5000}
Fields == {"enabled", "glob", "notifyOnDirty", "stealFocusOnReload", "pollIntervalMs"}
PCs == {"prompt", "resourceFail", "show", "refresh", "reject"}

Min(x, y) == IF x < y THEN x ELSE y
Max(x, y) == IF x > y THEN x ELSE y

CfgSpace == [enabled : BOOLEAN, glob : Globs, notifyOnDirty : BOOLEAN,
             stealFocusOnReload : BOOLEAN, pollIntervalMs : PollSettings]

DefaultCfg == [enabled |-> TRUE, glob |-> "**/*", notifyOnDirty |-> TRUE,
               stealFocusOnReload |-> FALSE, pollIntervalMs |-> 1000]

getPollIntervalMs(c) == Max(PollFloor, Min(PollCeil, c.pollIntervalMs))
getDebounceMs == Max(DebounceFloor, Min(DebounceCeil, DebounceSetting))

Idle == [cur |-> None, rest |-> <<>>]
NoWatcher == [id |-> Absent, glob |-> None]     \* workspaceWatcher undefined
NoTimer == [id |-> Absent, interval |-> 0]      \* pollHandle undefined

\* The record `last` of a step that did nothing the properties look at.
Quiet == [op |-> "other", key |-> None, outcome |-> None, gap |-> NoGap,
          sincePrompt |-> NoGap, sinceDecision |-> NoGap, hadNotify |-> FALSE,
          busy |-> FALSE, cmd |-> None, cmdDirty |-> FALSE, affects |-> {},
          src |-> None, choice |-> None, batch |-> {}, threw |-> {}, made |-> {}]

EvalCount(k) == evals[k]["prompt"] + evals[k]["resourceFail"] + evals[k]["show"]
                + evals[k]["refresh"] + evals[k]["reject"]

\* statMtimeMs: the file's mtime, or undefined when the stat fails.
statMtimeMs(k) == {disk[k], Absent}

OpenDocs == SelectSeq(KeyOrder, LAMBDA k : open[k])

----------------------------------------------------------------------------
(* Reload Executor: revertDocument *)

\* doc.isDirty at line 97
DirtyAtEntry(k) == dirty[k]

\* Line 118 left out: the fallback reverts without looking at isDirty again.
DirtyBeforeFallbackUnchecked(k) == FALSE

\* doc.isDirty at line 118
DirtyBeforeFallback(k) == dirty[k]

\* The host's revert of the document of key k: the buffer takes the disk content.
HostRevertBuf(k) == IF open[k] THEN [buf EXCEPT ![k] = disk[k]] ELSE buf
HostRevertDirty(k) == IF open[k] THEN [dirty EXCEPT ![k] = FALSE] ELSE dirty

\* revertDocument from its entry to its first await (or its return).  The
\* result: the pc the call is suspended at ("done" when it returned), the
\* command issued, whether the document was dirty when it was issued, and
\* whether the host reverts the buffer.
RevertEntry(k) ==
    IF DirtyAtEntry(k)
    THEN [pc |-> "done", cmd |-> None, cmdDirty |-> FALSE, outcome |-> "skippedDirty",
          reverts |-> FALSE]
    ELSE [pc |-> IF hostHasRevertResource THEN "refresh" ELSE "resourceFail",
          cmd |-> "revertResource", cmdDirty |-> dirty[k],
          outcome |-> "revertIssued", reverts |-> hostHasRevertResource]

----------------------------------------------------------------------------
(* Change Arbiter: maybeReloadForUri from its entry to its first await *)

\* Line 132 with the lower clamp in place of the setting.
DebounceDropsFloor(t, lastT) == t - lastT < DebounceFloor

\* Line 132 with <= for <.
DebounceDropsInclusive(t, lastT) == t - lastT <= getDebounceMs

\* Line 132
DebounceDrops(t, lastT) == t - lastT < getDebounceMs

\* Line 146 with the debounce interval in place of the cooldown.
CooldownDropsDebounce(t, lastT) == t - lastT < getDebounceMs

\* Line 146 with <= for <.
CooldownDropsInclusive(t, lastT) == t - lastT <= DIRTY_NOTIFY_COOLDOWN_MS

\* Line 146
CooldownDrops(t, lastT) == t - lastT < DIRTY_NOTIFY_COOLDOWN_MS

OrZero(v) == IF v = Absent THEN 0 ELSE v

Since(v) == IF v = Absent THEN NoGap ELSE now - v

Outcome(k) ==
    IF ~isRuntimeEnabled THEN "disabled"
    ELSE IF DebounceDrops(now, OrZero(lastEventAt[k])) THEN "debounced"
    ELSE IF k \in inFlight THEN "inflight"
    ELSE IF ~open[k] THEN "nodoc"
    ELSE IF dirty[k]
         THEN IF ~cfg.notifyOnDirty THEN "silent"
              ELSE IF CooldownDrops(now, OrZero(lastDirtyNotifyAt[k])) THEN "cooldown"
              ELSE "prompt"
    ELSE "reload"

\* The call suspends: a prompt or a revert command is awaited.
Spawns(k) == Outcome(k) \in {"prompt", "reload"}

Arbiter(k, src) ==
    LET out == Outcome(k)
        rec == [Quiet EXCEPT !.op = "signal", !.key = k, !.outcome = out,
                    !.src = src,
                    !.gap = Since(lastEventAt[k]),
                    !.sincePrompt = Since(lastPromptAt[k]),
                    !.sinceDecision = Since(lastDecisionAt[k]),
                    !.hadNotify = (lastDirtyNotifyAt[k] # Absent),
                    !.busy = (EvalCount(k) > 0)]
    IN
    /\ lastEventAt' = IF out \in {"disabled", "debounced"} THEN lastEventAt
                      ELSE [lastEventAt EXCEPT ![k] = now]
    /\ IF out = "prompt"
       THEN /\ lastDirtyNotifyAt' = [lastDirtyNotifyAt EXCEPT ![k] = now]
            /\ inFlight' = inFlight \cup {k}
            /\ evals' = [evals EXCEPT ![k]["prompt"] = @ + 1]
            /\ lastPromptAt' = [lastPromptAt EXCEPT ![k] = now]
            /\ lastDecisionAt' = [lastDecisionAt EXCEPT ![k] = now]
            /\ last' = [rec EXCEPT !.cmd = "prompt", !.cmdDirty = dirty[k]]
            /\ UNCHANGED <<buf, dirty>>
       ELSE IF out = "reload"
       THEN LET r == RevertEntry(k) IN
              /\ lastDecisionAt' = [lastDecisionAt EXCEPT ![k] = now]
              /\ last' = [rec EXCEPT !.cmd = r.cmd, !.cmdDirty = r.cmdDirty]
              /\ UNCHANGED <<lastDirtyNotifyAt, lastPromptAt>>
              /\ IF r.pc = "done"
                 THEN UNCHANGED <<inFlight, evals, buf, dirty>>
                 ELSE /\ inFlight' = inFlight \cup {k}
                      /\ evals' = [evals EXCEPT ![k][r.pc] = @ + 1]
                      /\ buf' = IF r.reverts THEN HostRevertBuf(k) ELSE buf
                      /\ dirty' = IF r.reverts THEN HostRevertDirty(k) ELSE dirty
       ELSE /\ last' = rec
            /\ UNCHANGED <<lastDirtyNotifyAt, inFlight, evals, buf, dirty,
                           lastPromptAt, lastDecisionAt>>

----------------------------------------------------------------------------
(* Continuations of a suspended maybeReloadForUri *)

\* The finally block without line 164: the mark stays.
FinishKeepsMark(k, pc) ==
    /\ evals' = [evals EXCEPT ![k][pc] = @ - 1]
    /\ UNCHANGED inFlight

\* The finally block: the call at pc returns or throws.
Finish(k, pc) ==
    /\ evals' = [evals EXCEPT ![k][pc] = @ - 1]
    /\ inFlight' = inFlight \ {k}

Moved(k, from, to) == [evals EXCEPT ![k][from] = @ - 1, ![k][to] = @ + 1]

EvalRec(k, outcome, cmd, cmdDirty) ==
    [Quiet EXCEPT !.op = "eval", !.key = k, !.outcome = outcome, !.cmd = cmd,
                  !.cmdDirty = cmdDirty]

\* showWarningMessage resolves with the user's choice (lines 150-158).
PromptAnswer(k) ==
    /\ evals[k]["prompt"] > 0
    /\ \E choice \in {"Reload", "Ignore", "dismissed"} :
         LET r == RevertEntry(k) IN
         IF choice = "Reload" /\ r.pc # "done"
         THEN /\ evals' = Moved(k, "prompt", r.pc)
              /\ buf' = IF r.reverts THEN HostRevertBuf(k) ELSE buf
              /\ dirty' = IF r.reverts THEN HostRevertDirty(k) ELSE dirty
              /\ last' = [EvalRec(k, r.outcome, r.cmd, r.cmdDirty)
                              EXCEPT !.choice = choice]
              /\ UNCHANGED inFlight
         ELSE /\ Finish(k, "prompt")
              /\ last' = [EvalRec(k, IF choice = "Reload" THEN r.outcome ELSE "ignored",
                                  None, FALSE)
                              EXCEPT !.choice = choice]
              /\ UNCHANGED <<buf, dirty>>
    /\ UNCHANGED <<open, disk, pendingEvents, active, now, cfg,
                   hostHasRevertResource, isRuntimeEnabled, workspaceWatcher,
                   pollHandle, pollInProgress, externalWatchers, liveWatchers,
                   knownMtimes, lastEventAt, lastDirtyNotifyAt, syncQueued,
                   sync, sweeps, saveRefresh, lastPromptAt, lastDecisionAt,
                   attachFailed, restarted>>

\* Lines 118-122, entered with the document in the active editor: the re-check
\* of isDirty and the revert of the active editor.
FallbackRevert(k, from) ==
    IF DirtyBeforeFallback(k)
    THEN /\ Finish(k, from)
         /\ last' = EvalRec(k, "skippedDirty", None, FALSE)
         /\ UNCHANGED <<buf, dirty>>
    ELSE \E ok \in BOOLEAN :
         /\ evals' = Moved(k, from, IF ok THEN "refresh" ELSE "reject")
         /\ buf' = IF ok THEN HostRevertBuf(k) ELSE buf
         /\ dirty' = IF ok THEN HostRevertDirty(k) ELSE dirty
         /\ last' = EvalRec(k, "revertIssued", "revert", dirty[k])
         /\ UNCHANGED inFlight

\* Line 109 left out: the fallback always goes on to lines 114-119.
MayTakeFocusAlways(isActive) == TRUE

\* The focus policy of line 109.
MayTakeFocus(isActive) == isActive \/ cfg.stealFocusOnReload

\* revertResource rejected: the catch of line 104 and the fallback up to its
\* next await (lines 108-119).
ResourceFailed(k) ==
    /\ evals[k]["resourceFail"] > 0
    /\ LET isActive == (active = k) IN
       IF ~MayTakeFocus(isActive)
       THEN /\ Finish(k, "resourceFail")
            /\ last' = EvalRec(k, "skippedFocus", None, FALSE)
            /\ UNCHANGED <<buf, dirty>>
       ELSE IF ~isActive
       THEN /\ \E ok \in BOOLEAN :
                 evals' = Moved(k, "resourceFail", IF ok THEN "show" ELSE "reject")
            /\ last' = EvalRec(k, "showIssued", "show", dirty[k])
            /\ UNCHANGED <<buf, dirty, inFlight>>
       ELSE FallbackRevert(k, "resourceFail")
    /\ UNCHANGED <<open, disk, pendingEvents, active, now, cfg,
                   hostHasRevertResource, isRuntimeEnabled, workspaceWatcher,
                   pollHandle, pollInProgress, externalWatchers, liveWatchers,
                   knownMtimes, lastEventAt, lastDirtyNotifyAt, syncQueued,
                   sync, sweeps, saveRefresh, lastPromptAt, lastDecisionAt,
                   attachFailed, restarted>>

\* showTextDocument resolved with the document in the active editor (or
\* rejected because the document is gone), then lines 118-119.
ShowDone(k) ==
    /\ evals[k]["show"] > 0
    /\ IF open[k]
       THEN /\ active' = k
            /\ FallbackRevert(k, "show")
       ELSE /\ Finish(k, "show")
            /\ last' = EvalRec(k, "threw", None, FALSE)
            /\ UNCHANGED <<active, buf, dirty>>
    /\ UNCHANGED <<open, disk, pendingEvents, now, cfg, hostHasRevertResource,
                   isRuntimeEnabled, workspaceWatcher, pollHandle,
                   pollInProgress, externalWatchers, liveWatchers, knownMtimes,
                   lastEventAt, lastDirtyNotifyAt, syncQueued, sync, sweeps,
                   saveRefresh, lastPromptAt, lastDecisionAt, attachFailed,
                   restarted>>

\* refreshKnownMtime (lines 90-94) with the stat's result m.
Refreshed(k, m) == IF m # Absent THEN [knownMtimes EXCEPT ![k] = m] ELSE knownMtimes

\* The revert command resolved, then refreshKnownMtime and `return true`.
RefreshDone(k) ==
    /\ evals[k]["refresh"] > 0
    /\ \E m \in statMtimeMs(k) : knownMtimes' = Refreshed(k, m)
    /\ Finish(k, "refresh")
    /\ last' = EvalRec(k, "reloaded", None, FALSE)
    /\ UNCHANGED <<open, dirty, disk, buf, pendingEvents, active, now, cfg,
                   hostHasRevertResource, isRuntimeEnabled, workspaceWatcher,
                   pollHandle, pollInProgress, externalWatchers, liveWatchers,
                   lastEventAt, lastDirtyNotifyAt, syncQueued, sync, sweeps,
                   saveRefresh, lastPromptAt, lastDecisionAt, attachFailed,
                   restarted>>

\* An awaited host command rejected: the exception leaves through finally.
Rejected(k) ==
    /\ evals[k]["reject"] > 0
    /\ Finish(k, "reject")
    /\ last' = EvalRec(k, "threw", None, FALSE)
    /\ UNCHANGED <<open, dirty, disk, buf, pendingEvents, active, now, cfg,
                   hostHasRevertResource, isRuntimeEnabled, workspaceWatcher,
                   pollHandle, pollInProgress, externalWatchers, liveWatchers,
                   knownMtimes, lastEventAt, lastDirtyNotifyAt, syncQueued,
                   sync, sweeps, saveRefresh, lastPromptAt, lastDecisionAt,
                   attachFailed, restarted>>

----------------------------------------------------------------------------
(* Raw signals of the push sources *)

\* The callback of the fs.watch handle of key k (line 193).
FsWatchEvent(k) ==
    /\ k \in externalWatchers
    /\ Spawns(k) => EvalCount(k) < MaxEvals
    /\ Arbiter(k, "fs.watch")
    /\ pendingEvents' = [pendingEvents EXCEPT ![k] = @ \ {"fs.watch"}]
    /\ UNCHANGED <<open, disk, active, now, cfg, hostHasRevertResource,
                   isRuntimeEnabled, workspaceWatcher, pollHandle,
                   pollInProgress, externalWatchers, liveWatchers, knownMtimes,
                   syncQueued, sync, sweeps, saveRefresh, attachFailed,
                   restarted>>

\* onDidChange / onDidCreate / onDidDelete of the workspace watcher (line 244).
WorkspaceEvent(k) ==
    /\ workspaceWatcher # NoWatcher
    /\ Spawns(k) => EvalCount(k) < MaxEvals
    /\ Arbiter(k, "workspace")
    /\ pendingEvents' = [pendingEvents EXCEPT ![k] = @ \ {"workspace"}]
    /\ UNCHANGED <<open, disk, active, now, cfg, hostHasRevertResource,
                   isRuntimeEnabled, workspaceWatcher, pollHandle,
                   pollInProgress, externalWatchers, liveWatchers, knownMtimes,
                   syncQueued, sync, sweeps, saveRefresh, attachFailed,
                   restarted>>

----------------------------------------------------------------------------
(* The host: documents, the user, the disk, the clock *)

queueSyncExternalWatchers == syncQueued' = syncQueued + 1

\* The push sources that watch the file of key k: they report a write to it.
Watching(k) ==
    (IF workspaceWatcher # NoWatcher THEN {"workspace"} ELSE {})
        \cup (IF k \in externalWatchers THEN {"fs.watch"} ELSE {})

\* onDidOpenTextDocument (line 346)
Open(k) ==
    /\ ~open[k]
    /\ syncQueued < MaxQueue
    /\ open' = [open EXCEPT ![k] = TRUE]
    /\ buf' = [buf EXCEPT ![k] = disk[k]]
    /\ queueSyncExternalWatchers
    /\ last' = Quiet
    /\ UNCHANGED <<dirty, disk, pendingEvents, active, now, cfg,
                   hostHasRevertResource, isRuntimeEnabled, workspaceWatcher,
                   pollHandle, pollInProgress, externalWatchers, liveWatchers,
                   knownMtimes, inFlight, lastEventAt, lastDirtyNotifyAt, sync,
                   sweeps, evals, saveRefresh, lastPromptAt, lastDecisionAt,
                   attachFailed, restarted>>

\* onDidCloseTextDocument (line 347)
Close(k) ==
    /\ open[k]
    /\ syncQueued < MaxQueue
    /\ open' = [open EXCEPT ![k] = FALSE]
    /\ dirty' = [dirty EXCEPT ![k] = FALSE]
    /\ active' = IF active = k THEN None ELSE active
    /\ queueSyncExternalWatchers
    /\ last' = Quiet
    /\ UNCHANGED <<disk, buf, pendingEvents, now, cfg, hostHasRevertResource,
                   isRuntimeEnabled, workspaceWatcher, pollHandle,
                   pollInProgress, externalWatchers, liveWatchers, knownMtimes,
                   inFlight, lastEventAt, lastDirtyNotifyAt, sync, sweeps,
                   evals, saveRefresh, lastPromptAt, lastDecisionAt,
                   attachFailed, restarted>>

\* The user types in the document.
Edit(k) ==
    /\ open[k] /\ ~dirty[k]
    /\ dirty' = [dirty EXCEPT ![k] = TRUE]
    /\ last' = Quiet
    /\ UNCHANGED <<open, disk, buf, pendingEvents, active, now, cfg,
                   hostHasRevertResource, isRuntimeEnabled, workspaceWatcher,
                   pollHandle, pollInProgress, externalWatchers, liveWatchers,
                   knownMtimes, inFlight, lastEventAt, lastDirtyNotifyAt,
                   syncQueued, sync, sweeps, evals, saveRefresh, lastPromptAt,
                   lastDecisionAt, attachFailed, restarted>>

\* The editor saves the document; onDidSaveTextDocument (lines 348-351) starts
\* refreshKnownMtime, which suspends on its stat.
Save(k) ==
    /\ open[k] /\ dirty[k]
    /\ disk[k] < MaxVer
    /\ saveRefresh[k] < MaxRefresh
    /\ disk' = [disk EXCEPT ![k] = @ + 1]
    /\ buf' = [buf EXCEPT ![k] = disk[k] + 1]
    /\ dirty' = [dirty EXCEPT ![k] = FALSE]
    /\ saveRefresh' = [saveRefresh EXCEPT ![k] = @ + 1]
    /\ pendingEvents' = [pendingEvents EXCEPT ![k] = @ \cup Watching(k)]
    /\ last' = Quiet
    /\ UNCHANGED <<open, active, now, cfg, hostHasRevertResource,
                   isRuntimeEnabled, workspaceWatcher, pollHandle,
                   pollInProgress, externalWatchers, liveWatchers, knownMtimes,
                   inFlight, lastEventAt, lastDirtyNotifyAt, syncQueued, sync,
                   sweeps, evals, lastPromptAt, lastDecisionAt, attachFailed,
                   restarted>>

\* The stat of an onSave refreshKnownMtime resolved (lines 92-93).
SaveRefreshDone(k) ==
    /\ saveRefresh[k] > 0
    /\ \E m \in statMtimeMs(k) : knownMtimes' = Refreshed(k, m)
    /\ saveRefresh' = [saveRefresh EXCEPT ![k] = @ - 1]
    /\ last' = Quiet
    /\ UNCHANGED <<open, dirty, disk, buf, pendingEvents, active, now, cfg,
                   hostHasRevertResource, isRuntimeEnabled, workspaceWatcher,
                   pollHandle, pollInProgress, externalWatchers, liveWatchers,
                   inFlight, lastEventAt, lastDirtyNotifyAt, syncQueued, sync,
                   sweeps, evals, lastPromptAt, lastDecisionAt, attachFailed,
                   restarted>>

\* Another program writes the file.
DiskChange(k) ==
    /\ disk[k] < MaxVer
    /\ disk' = [disk EXCEPT ![k] = @ + 1]
    /\ pendingEvents' = [pendingEvents EXCEPT ![k] = @ \cup Watching(k)]
    /\ last' = Quiet
    /\ UNCHANGED <<open, dirty, buf, active, now, cfg, hostHasRevertResource,
                   isRuntimeEnabled, workspaceWatcher, pollHandle,
                   pollInProgress, externalWatchers, liveWatchers, knownMtimes,
                   inFlight, lastEventAt, lastDirtyNotifyAt, syncQueued, sync,
                   sweeps, evals, saveRefresh, lastPromptAt, lastDecisionAt,
                   attachFailed, restarted>>

\* The user brings another open document (or none) to the active editor.
Focus(k) ==
    /\ k # active
    /\ IF k = None THEN TRUE ELSE open[k]
    /\ active' = k
    /\ last' = Quiet
    /\ UNCHANGED <<open, dirty, disk, buf, pendingEvents, now, cfg,
                   hostHasRevertResource, isRuntimeEnabled, workspaceWatcher,
                   pollHandle, pollInProgress, externalWatchers, liveWatchers,
                   knownMtimes, inFlight, lastEventAt, lastDirtyNotifyAt,
                   syncQueued, sync, sweeps, evals, saveRefresh, lastPromptAt,
                   lastDecisionAt, attachFailed, restarted>>

\* Time passes, to one of the instants the model looks at.
Tick(offsets) ==
    /\ \E d \in offsets : StartTime + d > now /\ now' = StartTime + d
    /\ last' = Quiet
    /\ UNCHANGED <<open, dirty, disk, buf, pendingEvents, active, cfg,
                   hostHasRevertResource, isRuntimeEnabled, workspaceWatcher,
                   pollHandle, pollInProgress, externalWatchers, liveWatchers,
                   knownMtimes, inFlight, lastEventAt, lastDirtyNotifyAt,
                   syncQueued, sync, sweeps, evals, saveRefresh, lastPromptAt,
                   lastDecisionAt, attachFailed, restarted>>

----------------------------------------------------------------------------
(* Watcher Set Synchronizer: syncExternalWatchers *)

SeqToSet(q) == {q[i] : i \in 1..Len(q)}

\* Lines 190-199 for one document; attachOk holds the keys fs.watch succeeds for.
Attach(k, st, attachOk) ==
    IF k \in st.ext THEN st
    ELSE IF k \notin attachOk
    THEN [st EXCEPT !.failed = @ \cup {k}, !.threw = @ \cup {k}]
    ELSE [st EXCEPT !.ext = @ \cup {k}, !.live = [@ EXCEPT ![k] = @ + 1],
                    !.failed = @ \ {k}, !.made = @ \cup {k}]

\* The try/catch of lines 190-199 left out: a throwing fs.watch ends the loop
\* and the reconciliation with it.
RECURSIVE AttachLoopAborting(_, _, _)
AttachLoopAborting(docs, st, attachOk) ==
    IF docs = <<>> THEN [st EXCEPT !.sync = Idle]
    ELSE IF st.known[Head(docs)] = Absent
    THEN [st EXCEPT !.sync = [cur |-> Head(docs), rest |-> Tail(docs)]]
    ELSE IF Head(docs) \notin st.ext /\ Head(docs) \notin attachOk
    THEN [Attach(Head(docs), st, attachOk) EXCEPT !.sync = Idle]
    ELSE AttachLoopAborting(Tail(docs), Attach(Head(docs), st, attachOk), attachOk)

\* The loop of lines 182-200 over docs, up to its next await or its end.
RECURSIVE AttachLoop(_, _, _)
AttachLoop(docs, st, attachOk) ==
    IF docs = <<>> THEN [st EXCEPT !.sync = Idle]
    ELSE IF st.known[Head(docs)] = Absent
    THEN [st EXCEPT !.sync = [cur |-> Head(docs), rest |-> Tail(docs)]]
    ELSE AttachLoop(Tail(docs), Attach(Head(docs), st, attachOk), attachOk)

\* The documents a suspended reconciliation has not reached yet.
Waiting(sy) == IF sy = Idle THEN {} ELSE {sy.cur} \cup SeqToSet(sy.rest)

\* The record `last` of a reconciliation step that went through docs and
\* ended in st.
SyncRec(docs, st, outcome) ==
    [Quiet EXCEPT !.op = "sync", !.outcome = outcome,
                  !.batch = docs \ Waiting(st.sync),
                  !.threw = st.threw, !.made = st.made]

\* Lines 172-180 left out: no handle is ever pruned.
StaleNone(openPaths) == {}

\* Lines 172-180: the handles to close, those of paths no longer open.
Stale(openPaths) == externalWatchers \ openPaths

Dropped(f, ks) == [k \in Keys |-> IF k \in ks THEN Absent ELSE f[k]]

Closed(ks) == [k \in Keys |-> IF k \in ks THEN liveWatchers[k] - 1 ELSE liveWatchers[k]]

\* Line 205 not chained: syncExternalWatchers is called as soon as it is queued.
ChainReadyAlways == TRUE

\* Lines 204-205: then() runs its callback once the previous link has settled.
ChainReady == sync = Idle

\* The chain of line 204 starts the next reconciliation: lines 169-180 and the
\* loop up to its first await.  attachChoices: the sets of keys fs.watch may
\* succeed for.
SyncStart(attachChoices) ==
    /\ syncQueued > 0
    /\ ChainReady
    /\ syncQueued' = syncQueued - 1
    /\ \E attachOk \in attachChoices :
         LET openPaths == SeqToSet(OpenDocs)
             gone == Stale(openPaths)
             st == AttachLoop(OpenDocs,
                              [sync |-> Idle, known |-> Dropped(knownMtimes, gone),
                               ext |-> externalWatchers \ gone, live |-> Closed(gone),
                               failed |-> attachFailed, threw |-> {}, made |-> {}],
                              attachOk)
         IN /\ sync' = st.sync
            /\ knownMtimes' = st.known
            /\ externalWatchers' = st.ext
            /\ liveWatchers' = st.live
            /\ attachFailed' = st.failed
            /\ lastEventAt' = Dropped(lastEventAt, gone)
            /\ lastDirtyNotifyAt' = Dropped(lastDirtyNotifyAt, gone)
            /\ last' = SyncRec(openPaths, st, "started")
    /\ UNCHANGED <<open, dirty, disk, buf, pendingEvents, active, now, cfg,
                   hostHasRevertResource, isRuntimeEnabled, workspaceWatcher,
                   pollHandle, pollInProgress, inFlight, sweeps, evals,
                   saveRefresh, lastPromptAt, lastDecisionAt, restarted>>

\* The stat of line 186 resolved: line 187, the attach of that document, and
\* the rest of the loop up to its next await or its end.
SyncStatDone(attachChoices) ==
    /\ sync # Idle
    /\ \E m \in statMtimeMs(sync.cur), attachOk \in attachChoices :
         LET st == AttachLoop(sync.rest,
                              Attach(sync.cur,
                                     [sync |-> Idle, known |-> Refreshed(sync.cur, m),
                                      ext |-> externalWatchers, live |-> liveWatchers,
                                      failed |-> attachFailed, threw |-> {},
                                      made |-> {}],
                                     attachOk),
                              attachOk)
         IN /\ sync' = st.sync
            /\ knownMtimes' = st.known
            /\ externalWatchers' = st.ext
            /\ liveWatchers' = st.live
            /\ attachFailed' = st.failed
            /\ last' = SyncRec(Waiting(sync), st, None)
    /\ UNCHANGED <<open, dirty, disk, buf, pendingEvents, active, now, cfg,
                   hostHasRevertResource, isRuntimeEnabled, workspaceWatcher,
                   pollHandle, pollInProgress, inFlight, lastEventAt,
                   lastDirtyNotifyAt, syncQueued, sweeps, evals, saveRefresh,
                   lastPromptAt, lastDecisionAt, restarted>>

\* The running reconciliation throws when it resumes: its promise rejects and
\* the catch of lines 206-208 settles the link.
SyncFailed ==
    /\ sync # Idle
    /\ sync' = Idle
    /\ last' = [Quiet EXCEPT !.op = "syncFailed"]
    /\ UNCHANGED <<open, dirty, disk, buf, pendingEvents, active, now, cfg,
                   hostHasRevertResource, isRuntimeEnabled, workspaceWatcher,
                   pollHandle, pollInProgress, externalWatchers, liveWatchers,
                   knownMtimes, inFlight, lastEventAt, lastDirtyNotifyAt,
                   syncQueued, sweeps, evals, saveRefresh, lastPromptAt,
                   lastDecisionAt, attachFailed, restarted>>

----------------------------------------------------------------------------
(* Poll Loop: the setInterval callback and pollForExternalChanges *)

\* The guard of line 258.
TickSkipped == pollInProgress

\* The timer fires (lines 257-267).  A sweep over no document ends at once.
PollTick ==
    /\ pollHandle # NoTimer
    /\ BagCardinality(sweeps) < MaxSweeps
    /\ IF TickSkipped \/ OpenDocs = <<>>
       THEN UNCHANGED <<pollInProgress, sweeps>>
       ELSE /\ pollInProgress' = TRUE
            /\ sweeps' = sweeps (+) SetToBag({OpenDocs})
    /\ last' = [Quiet EXCEPT !.op = "tick"]
    /\ UNCHANGED <<open, dirty, disk, buf, pendingEvents, active, now, cfg,
                   hostHasRevertResource, isRuntimeEnabled, workspaceWatcher,
                   pollHandle, externalWatchers, liveWatchers, knownMtimes,
                   inFlight, lastEventAt, lastDirtyNotifyAt, syncQueued, sync,
                   evals, saveRefresh, lastPromptAt, lastDecisionAt,
                   attachFailed, restarted>>

\* Lines 229-232 left out: a first observation counts as a change.
PollVerdictNoSeed(k, m) ==
    IF m = Absent THEN "skip"
    ELSE IF m # knownMtimes[k] THEN "changed"
    ELSE "same"

\* Lines 228-237: what the sweep does with the mtime m it read for key k.
PollVerdict(k, m) ==
    IF m = Absent THEN "skip"
    ELSE IF knownMtimes[k] = Absent THEN "seed"
    ELSE IF m # knownMtimes[k] THEN "changed"
    ELSE "same"

\* The stat of line 225 of the sweep s resolved: lines 226-237 for that document
\* and the loop up to its next stat, or the end of the sweep (line 265).
SweepStatDone(s) ==
    /\ BagIn(s, sweeps)
    /\ Spawns(Head(s)) => EvalCount(Head(s)) < MaxEvals
    /\ \E m \in statMtimeMs(Head(s)) :
         LET k == Head(s)
             v == PollVerdict(k, m)
         IN /\ knownMtimes' = IF v \in {"seed", "changed"}
                              THEN [knownMtimes EXCEPT ![k] = m] ELSE knownMtimes
            /\ IF v = "changed" THEN Arbiter(k, "poll")
               ELSE /\ last' = [Quiet EXCEPT !.op = "poll"]
                    /\ UNCHANGED <<inFlight, lastEventAt, lastDirtyNotifyAt, evals,
                                   buf, dirty, lastPromptAt, lastDecisionAt>>
    /\ IF Tail(s) = <<>>
       THEN /\ sweeps' = sweeps (-) SetToBag({s})
            /\ pollInProgress' = FALSE
       ELSE /\ sweeps' = (sweeps (-) SetToBag({s})) (+) SetToBag({Tail(s)})
            /\ UNCHANGED pollInProgress
    /\ UNCHANGED <<open, disk, pendingEvents, active, now, cfg,
                   hostHasRevertResource, isRuntimeEnabled, workspaceWatcher,
                   pollHandle, externalWatchers, liveWatchers, syncQueued,
                   sync, saveRefresh, attachFailed, restarted>>

----------------------------------------------------------------------------
(* Runtime Controller: onDidChangeConfiguration *)

\* Line 371
RestartsWorkspaceWatcher(affects) == "glob" \in affects

\* Line 374 without its condition: the timer restarts on every change.
RestartsPollingAlways(affects) == TRUE

\* Line 374
RestartsPolling(affects) == "pollIntervalMs" \in affects

NewId(h) == IF h.id = Absent THEN 0 ELSE 1 - h.id

\* Line 212 left out: the map is cleared, its handles stay open.
AfterCloseAllLeaky == liveWatchers

\* Lines 211-218: the fs.FSWatcher objects left open by stopExternalWatchers.
AfterCloseAll == Closed(externalWatchers)

\* The handler of lines 353-381 for a change that leaves the settings c and
\* affects the settings named in affects.
OnConfig(c, affects) ==
    LET was == isRuntimeEnabled
        starting == c.enabled /\ ~was
        stopping == ~c.enabled /\ was
        staying == c.enabled /\ was
        queues == starting \/ staying
    IN
    /\ queues => syncQueued < MaxQueue
    /\ cfg' = c
    /\ isRuntimeEnabled' = c.enabled
    /\ workspaceWatcher' =
         IF stopping THEN NoWatcher
         ELSE IF starting \/ (staying /\ RestartsWorkspaceWatcher(affects))
         THEN [id |-> NewId(workspaceWatcher), glob |-> c.glob]
         ELSE workspaceWatcher
    /\ pollHandle' =
         IF stopping THEN NoTimer
         ELSE IF starting \/ (staying /\ RestartsPolling(affects))
         THEN [id |-> NewId(pollHandle), interval |-> getPollIntervalMs(c)]
         ELSE pollHandle
    /\ pollInProgress' = IF stopping THEN FALSE ELSE pollInProgress
    /\ IF stopping
       THEN /\ liveWatchers' = AfterCloseAll
            /\ externalWatchers' = {}
            /\ knownMtimes' = [k \in Keys |-> Absent]
            /\ inFlight' = {}
            /\ lastEventAt' = [k \in Keys |-> Absent]
            /\ lastDirtyNotifyAt' = [k \in Keys |-> Absent]
       ELSE UNCHANGED <<liveWatchers, externalWatchers, knownMtimes, inFlight,
                        lastEventAt, lastDirtyNotifyAt>>
    /\ syncQueued' = IF queues THEN syncQueued + 1 ELSE syncQueued
    /\ restarted' = (restarted \/ starting)
    /\ last' = [Quiet EXCEPT !.op = "config", !.affects = affects]
    /\ UNCHANGED <<open, dirty, disk, buf, pendingEvents, active, now,
                   hostHasRevertResource, sync, sweeps, evals, saveRefresh,
                   lastPromptAt, lastDecisionAt, attachFailed>>

\* The user (or the toggle command) changes the settings named in affects.
ConfigChange(affects) ==
    /\ affects # {}
    /\ \E c \in CfgSpace :
         /\ \A f \in Fields : (f \in affects) <=> (c[f] # cfg[f])
         /\ OnConfig(c, affects)

----------------------------------------------------------------------------
(* The state after activate(): default settings, no document open, the runtime
   started by applyEnabledState (line 390) *)

Init ==
    /\ hostHasRevertResource \in BOOLEAN
    /\ attachFailed = {}
    /\ restarted = FALSE
    /\ open = [k \in Keys |-> FALSE]
    /\ dirty = [k \in Keys |-> FALSE]
    /\ disk = [k \in Keys |-> 0]
    /\ buf = [k \in Keys |-> 0]
    /\ pendingEvents = [k \in Keys |-> {}]
    /\ active = None
    /\ now = StartTime
    /\ cfg = DefaultCfg
    /\ isRuntimeEnabled = TRUE
    /\ workspaceWatcher = [id |-> 0, glob |-> DefaultCfg.glob]
    /\ pollHandle = [id |-> 0, interval |-> getPollIntervalMs(DefaultCfg)]
    /\ pollInProgress = FALSE
    /\ externalWatchers = {}
    /\ liveWatchers = [k \in Keys |-> 0]
    /\ knownMtimes = [k \in Keys |-> Absent]
    /\ inFlight = {}
    /\ lastEventAt = [k \in Keys |-> Absent]
    /\ lastDirtyNotifyAt = [k \in Keys |-> Absent]
    /\ syncQueued = 1
    /\ sync = Idle
    /\ sweeps = EmptyBag
    /\ evals = [k \in Keys |-> [pc \in PCs |-> 0]]
    /\ saveRefresh = [k \in Keys |-> 0]
    /\ lastPromptAt = [k \in Keys |-> Absent]
    /\ lastDecisionAt = [k \in Keys |-> Absent]
    /\ last = Quiet

InitResource == Init /\ hostHasRevertResource

OneKey == {"a"}

AttachMayFail == SUBSET Keys
AttachSucceeds == {Keys}

SyncStep(attachChoices) ==
    \/ SyncStart(attachChoices)
    \/ SyncStatDone(attachChoices)

PollStep ==
    \/ PollTick
    \/ \E s \in BagToSet(sweeps) : SweepStatDone(s)

Decided == last.op = "signal" /\ last.outcome \in {"prompt", "reload"}

----------------------------------------------------------------------------
(* The arbiter and the reload executor on one file, on a host with or without
   revertResource: open, close, edit and focus changes at every await, both
   push sources, the focus setting. *)

ReloadOffsets == {5000}

NextReload ==
    \/ \E k \in OneKey : Open(k)
    \/ \E k \in OneKey : Close(k)
    \/ \E k \in OneKey : Edit(k)
    \/ \E k \in OneKey \cup {None} : Focus(k)
    \/ \E k \in OneKey : FsWatchEvent(k)
    \/ \E k \in OneKey : WorkspaceEvent(k)
    \/ \E k \in OneKey : PromptAnswer(k)
    \/ \E k \in OneKey : ResourceFailed(k)
    \/ \E k \in OneKey : ShowDone(k)
    \/ \E k \in OneKey : RefreshDone(k)
    \/ \E k \in OneKey : Rejected(k)
    \/ SyncStep(AttachMayFail)
    \/ Tick(ReloadOffsets)
    \/ ConfigChange({"stealFocusOnReload"})

SpecReload == Init /\ [][NextReload]_vars

\* C1: a revert command (revertResource or the fallback revert of the active
\* editor) is issued for a document only when the document is not dirty at the
\* moment it is issued.
C1_NeverRevertsDirty ==
    last.cmd \in {"revertResource", "revert"} => ~last.cmdDirty

\* The arbiter ran on a dirty document, the user asked for the reload or edited
\* during an await, and revertDocument returned without a command: still dirty.
C1_Witness ==
    /\ last.op = "eval"
    /\ last.outcome = "skippedDirty"
    /\ open[last.key] /\ dirty[last.key]

----------------------------------------------------------------------------
(* Timing of the arbiter on one file: raw signals at chosen instants, with
   open, close, edit, enable and disable in between. *)

NextTiming(offsets) ==
    \/ \E k \in OneKey : Open(k)
    \/ \E k \in OneKey : Close(k)
    \/ \E k \in OneKey : Edit(k)
    \/ \E k \in OneKey : FsWatchEvent(k)
    \/ \E k \in OneKey : WorkspaceEvent(k)
    \/ \E k \in OneKey : PromptAnswer(k)
    \/ \E k \in OneKey : RefreshDone(k)
    \/ SyncStep(AttachMayFail)
    \/ Tick(offsets)
    \/ ConfigChange({"enabled"})

DebounceOffsets == {299, 300, 301}
CooldownOffsets == {1000, 5000}

NextDebounce == NextTiming(DebounceOffsets)
NextCooldown == NextTiming(CooldownOffsets)

SpecDebounce == InitResource /\ [][NextDebounce]_vars
SpecCooldown == InitResource /\ [][NextCooldown]_vars

\* C2 as claimed: two reload-or-prompt decisions for one key are never less
\* than debounceMs apart, whatever happened in between.
C2_OneDecisionPerWindow ==
    (Decided /\ last.sinceDecision # NoGap) => last.sinceDecision >= getDebounceMs

\* C2 as amended: two reload-or-prompt decisions for one key are never less than
\* debounceMs apart when the key still has its lastEventAt entry at the second
\* one (no disable and no pruning reconciliation dropped it in between).
C2_OneDecisionWhileTracked ==
    (Decided /\ last.sinceDecision # NoGap /\ last.gap # NoGap)
        => last.sinceDecision >= getDebounceMs

\* A second decision for the key, its lastEventAt entry kept since the first.
C2_Witness ==
    Decided /\ last.gap # NoGap /\ last.sinceDecision = 301

\* C7: with the runtime enabled and the key's last accepted event on record, a
\* raw event passes the debounce step if and only if it arrives at least
\* debounceMs after it; at 300 ms, 299 ms apart is dropped and 301 ms passes.
C7_DebounceBoundary ==
    (last.op = "signal" /\ last.outcome # "disabled" /\ last.gap # NoGap) =>
        /\ (last.outcome # "debounced") <=> (last.gap >= getDebounceMs)
        /\ last.gap = 299 => last.outcome = "debounced"
        /\ last.gap = 301 => last.outcome # "debounced"
        /\ last.outcome # "debounced" => lastEventAt[last.key] = now

\* The second of two raw events 301 ms apart is accepted and reloads.
C7_Witness ==
    last.op = "signal" /\ last.gap = 301 /\ last.outcome = "reload"

\* C8 as claimed: no two prompts for one key come from events less than the
\* cooldown apart, after any sequence of operations.
C8_PromptsRateLimited ==
    (last.op = "signal" /\ last.outcome = "prompt" /\ last.sincePrompt # NoGap)
        => last.sincePrompt >= DIRTY_NOTIFY_COOLDOWN_MS

\* C8 as amended: no two prompts for one key come from events less than the
\* cooldown apart when the key still has its lastDirtyNotifyAt entry at the
\* second event; an event 1000 ms after a prompt raises none.
C8_PromptsRateLimitedWhileTracked ==
    (last.op = "signal" /\ last.hadNotify) =>
        /\ last.outcome = "prompt" => last.sincePrompt >= DIRTY_NOTIFY_COOLDOWN_MS
        /\ last.sincePrompt = 1000 => last.outcome # "prompt"

\* A dirty-change event 1000 ms after a prompt, dropped by the cooldown.
C8_Witness ==
    last.op = "signal" /\ last.outcome = "cooldown" /\ last.sincePrompt = 1000

\* What C9 is about: a raw event for an open, dirty document, notifyOnDirty on,
\* the runtime enabled, the previous prompt's entry on record.
DirtyEventAfterPrompt ==
    /\ last.op = "signal"
    /\ isRuntimeEnabled /\ cfg.notifyOnDirty
    /\ open[last.key] /\ dirty[last.key]
    /\ last.hadNotify

\* C9 as claimed: the second of two dirty-change events 5000 ms apart raises a
\* prompt whatever became of the first prompt.
C9_SecondPromptAlways ==
    (DirtyEventAfterPrompt /\ last.sincePrompt = 5000 /\ last.gap = 5000)
        => last.outcome = "prompt"

\* C9 as amended: a dirty-change event that passes the debounce step, at least
\* the cooldown (so also 5000 ms) after the event of the previous prompt,
\* raises a prompt provided no evaluation for the key is still suspended (the
\* first prompt was answered or dismissed).
C9_SecondPromptOnceAnswered ==
    (DirtyEventAfterPrompt /\ last.sincePrompt >= DIRTY_NOTIFY_COOLDOWN_MS
        /\ last.gap >= getDebounceMs /\ ~last.busy)
        => last.outcome = "prompt"

\* The second prompt, 5000 ms after the first, which had been answered.
C9_Witness ==
    /\ DirtyEventAfterPrompt
    /\ last.sincePrompt = 5000 /\ ~last.busy
    /\ last.outcome = "prompt"

\* C11: when the user answers the dirty-conflict prompt of an open document
\* with "Reload from disk (discard local changes)", revertDocument issues the
\* revert and the document is left clean, showing the content on disk.
C11_ReloadChoiceReloads ==
    (last.op = "eval" /\ last.choice = "Reload" /\ open[last.key]) =>
        /\ last.cmd = "revertResource"
        /\ ~dirty[last.key]
        /\ buf[last.key] = disk[last.key]

\* C12: at most one maybeReloadForUri call per key is between its in-flight
\* mark and its in-flight clear, also across disable and enable.
C12_OneEvaluationPerKey ==
    \A k \in Keys : EvalCount(k) <= 1

----------------------------------------------------------------------------
(* Synchronization of one document that stays open and clean while another
   program writes its file: every push source delivers one event per write
   it saw, the poll timer fires at any time, revertResource succeeds. *)

FsWatchDelivery(k) == "fs.watch" \in pendingEvents[k] /\ FsWatchEvent(k)

WorkspaceDelivery(k) == "workspace" \in pendingEvents[k] /\ WorkspaceEvent(k)

SyncOffsets == {200, 1000}

NextSync ==
    \/ \E k \in OneKey : Open(k)
    \/ \E k \in OneKey : DiskChange(k)
    \/ \E k \in OneKey : FsWatchDelivery(k)
    \/ \E k \in OneKey : WorkspaceDelivery(k)
    \/ \E k \in OneKey : RefreshDone(k)
    \/ SyncStep(AttachMayFail)
    \/ PollStep
    \/ Tick(SyncOffsets)

SpecSync == InitResource /\ [][NextSync]_vars

\* Nothing is left that could still reload the document of key k: no event of
\* a write is owed, no evaluation, sweep, reconciliation or refresh is
\* suspended, and the poll loop has recorded the file's current mtime.
Settled(k) ==
    /\ isRuntimeEnabled /\ open[k] /\ ~dirty[k]
    /\ pendingEvents[k] \cap Watching(k) = {}
    /\ EvalCount(k) = 0 /\ k \notin inFlight
    /\ sweeps = EmptyBag /\ ~pollInProgress
    /\ sync = Idle /\ syncQueued = 0
    /\ saveRefresh[k] = 0
    /\ knownMtimes[k] = disk[k]

\* C3: once the writes to the file of an open, clean document have been
\* signalled and processed (nothing is left to run and the poll loop knows the
\* file's mtime), the buffer shows the latest content on disk.
C3_SyncedOnceSettled ==
    \A k \in OneKey : Settled(k) => buf[k] = disk[k]

----------------------------------------------------------------------------
(* The per-file watcher handles of two files with the runtime enabled:
   documents open and close, one of them is edited and saved and has its
   handle fire, fs.watch may throw. *)

NextWatch ==
    \/ \E k \in Keys : Open(k)
    \/ \E k \in Keys : Close(k)
    \/ \E k \in OneKey : Edit(k)
    \/ \E k \in OneKey : Save(k)
    \/ \E k \in OneKey : SaveRefreshDone(k)
    \/ \E k \in OneKey : FsWatchEvent(k)
    \/ \E k \in OneKey : RefreshDone(k)
    \/ SyncStep(AttachMayFail)

SpecWatch == InitResource /\ [][NextWatch]_vars

\* Every reconciliation chained on syncWatchersQueue has run to its end.
QueueDrained == syncQueued = 0 /\ sync = Idle

\* Every fs.FSWatcher created and not closed is the one the map holds for its key.
HandlesRecorded ==
    \A k \in Keys : liveWatchers[k] = IF k \in externalWatchers THEN 1 ELSE 0

\* C4: no handle exists outside the map and the map holds one per key at most;
\* with the runtime enabled and the queue drained, a closed file has no handle
\* and an open file has one unless its latest attach threw.
C4_OneHandlePerOpenFile ==
    /\ HandlesRecorded
    /\ (isRuntimeEnabled /\ QueueDrained) =>
         \A k \in Keys :
            /\ ~open[k] => k \notin externalWatchers
            /\ (open[k] /\ k \notin attachFailed) => k \in externalWatchers

\* After opens and closes, one file open with its handle, the other closed and
\* pruned, the queue drained.
C4_Witness ==
    /\ isRuntimeEnabled /\ QueueDrained
    /\ open["a"] /\ ~open["b"]
    /\ externalWatchers = {"a"}
    /\ knownMtimes["b"] = Absent /\ lastEventAt["a"] # Absent
    /\ last.op = "sync"

----------------------------------------------------------------------------
(* The runtime controller on one file: any change of enabled, glob and
   pollIntervalMs, with opens, closes, reconciliations, sweeps and
   evaluations in between. *)

RuntimeFields == {"enabled", "glob", "pollIntervalMs"}

NextRuntime ==
    \/ \E k \in OneKey : Open(k)
    \/ \E k \in OneKey : Close(k)
    \/ \E k \in OneKey : WorkspaceEvent(k)
    \/ \E k \in OneKey : RefreshDone(k)
    \/ SyncStep(AttachMayFail)
    \/ PollStep
    \/ \E affects \in SUBSET RuntimeFields : ConfigChange(affects)

SpecRuntime == InitResource /\ [][NextRuntime]_vars

\* C5: while the runtime is disabled there is no workspace watcher, no poll
\* timer, no per-file handle, and no tracked state.
C5_NothingWhenDisabled ==
    ~isRuntimeEnabled =>
        /\ workspaceWatcher = NoWatcher
        /\ pollHandle = NoTimer
        /\ externalWatchers = {}
        /\ \A k \in Keys :
              /\ liveWatchers[k] = 0
              /\ knownMtimes[k] = Absent
              /\ lastEventAt[k] = Absent
              /\ lastDirtyNotifyAt[k] = Absent
        /\ inFlight = {}

\* C10: a configuration change that finds the runtime enabled and leaves it
\* enabled replaces the workspace watcher iff glob is affected and the poll
\* timer iff pollIntervalMs is affected, leaves every per-file handle as it is,
\* and enqueues one reconciliation.
C10_SelectiveRestart ==
    [][(last'.op = "config" /\ isRuntimeEnabled /\ isRuntimeEnabled') =>
        /\ (workspaceWatcher' # workspaceWatcher) <=> ("glob" \in last'.affects)
        /\ (pollHandle' # pollHandle) <=> ("pollIntervalMs" \in last'.affects)
        /\ "glob" \in last'.affects => workspaceWatcher'.glob = cfg'.glob
        /\ "pollIntervalMs" \in last'.affects
              => pollHandle'.interval = getPollIntervalMs(cfg')
        /\ externalWatchers' = externalWatchers
        /\ liveWatchers' = liveWatchers
        /\ syncQueued' = syncQueued + 1]_vars

\* The glob alone changed while a file had its handle: a second workspace
\* watcher, the first poll timer, the handle still there, a reconciliation queued.
C10_Witness ==
    /\ last.op = "config" /\ last.affects = {"glob"}
    /\ isRuntimeEnabled
    /\ workspaceWatcher.id = 1 /\ pollHandle.id = 0
    /\ externalWatchers = {"a"}
    /\ syncQueued = 1

----------------------------------------------------------------------------
(* Toggling enabled with two files, fs.watch succeeding. *)

NextToggle ==
    \/ \E k \in Keys : Open(k)
    \/ \E k \in Keys : Close(k)
    \/ SyncStep(AttachSucceeds)
    \/ ConfigChange({"enabled"})

SpecToggle == InitResource /\ [][NextToggle]_vars

\* C6: disabling closes every handle and empties the map; whenever the runtime
\* is enabled and the queue has drained, the handles are exactly one per open
\* document and none is left over from before.
C6_ToggleLeavesNoLeak ==
    /\ [][(isRuntimeEnabled /\ ~isRuntimeEnabled') =>
            (externalWatchers' = {} /\ \A k \in Keys : liveWatchers'[k] = 0)]_vars
    /\ [](HandlesRecorded)
    /\ []((isRuntimeEnabled /\ QueueDrained) =>
            externalWatchers = {k \in Keys : open[k]})

\* Disabled and enabled again with both documents open: the queue has drained
\* and each has its handle.
C6_Witness ==
    /\ restarted /\ isRuntimeEnabled /\ QueueDrained
    /\ open["a"] /\ open["b"]
    /\ externalWatchers = Keys
    /\ last.op = "sync"

----------------------------------------------------------------------------
(* Every exit path of the arbiter on one file, on a host with or without
   revertResource: no open document, dirty with notifyOnDirty off, within the
   cooldown, the prompt answered or dismissed, the reload done, a host
   command throwing. *)

InFlightOffsets == {1000}

NextInFlight ==
    \/ \E k \in OneKey : Open(k)
    \/ \E k \in OneKey : Close(k)
    \/ \E k \in OneKey : Edit(k)
    \/ \E k \in OneKey \cup {None} : Focus(k)
    \/ \E k \in OneKey : WorkspaceEvent(k)
    \/ \E k \in OneKey : PromptAnswer(k)
    \/ \E k \in OneKey : ResourceFailed(k)
    \/ \E k \in OneKey : ShowDone(k)
    \/ \E k \in OneKey : RefreshDone(k)
    \/ \E k \in OneKey : Rejected(k)
    \/ SyncStep(AttachMayFail)
    \/ Tick(InFlightOffsets)
    \/ ConfigChange({"stealFocusOnReload"})
    \/ ConfigChange({"notifyOnDirty"})

SpecInFlight == Init /\ [][NextInFlight]_vars

\* C13: a key with no evaluation in progress is not in inFlight, and an event
\* is dropped by the in-flight check only while an evaluation for its key is
\* in progress.
C13_InFlightCleared ==
    /\ \A k \in Keys : EvalCount(k) = 0 => k \notin inFlight
    /\ (last.op = "signal" /\ last.outcome = "inflight") => last.busy

\* An awaited host command threw and the evaluation left through finally:
\* nothing is marked.
C13_Witness ==
    /\ last.op = "eval" /\ last.outcome = "threw"
    /\ EvalCount(last.key) = 0
    /\ inFlight = {}

----------------------------------------------------------------------------
(* Further properties of the slices above *)

\* C14: at most one pollForExternalChanges is in progress, also across timer
\* restarts and across disable and enable while a sweep is suspended on a stat.
C14_OneSweepAtATime ==
    BagCardinality(sweeps) <= 1

\* Nothing of the extension is suspended or queued.
Quiescent ==
    /\ QueueDrained
    /\ sweeps = EmptyBag
    /\ \A k \in Keys : EvalCount(k) = 0 /\ saveRefresh[k] = 0

\* C16: with the runtime enabled and nothing suspended or queued, every key
\* with an entry in knownMtimes, lastEventAt, lastDirtyNotifyAt or inFlight
\* belongs to an open document.
C16_TrackedStateFollowsOpenDocs ==
    (isRuntimeEnabled /\ Quiescent) =>
        \A k \in Keys :
            ~open[k] =>
                /\ knownMtimes[k] = Absent
                /\ lastEventAt[k] = Absent
                /\ lastDirtyNotifyAt[k] = Absent
                /\ k \notin inFlight

----------------------------------------------------------------------------
(* The reconciliation chain with two files: opens and closes queue
   reconciliations, a running one completes or throws.  The host runs every
   settled link's continuation, so the steps of the chain are weakly fair. *)

NextChain ==
    \/ \E k \in Keys : Open(k)
    \/ \E k \in Keys : Close(k)
    \/ SyncStep(AttachMayFail)
    \/ SyncFailed

SpecChain ==
    InitResource /\ [][NextChain]_vars /\ WF_vars(SyncStep(AttachMayFail))

\* C15: a queued reconciliation starts only when none is in progress, and
\* whenever one is queued a reconciliation is eventually started, also after
\* an earlier one threw.
C15_ReconciliationsSerialized ==
    /\ [][syncQueued' < syncQueued => sync = Idle]_vars
    /\ (syncQueued > 0) ~> (last.op = "sync" /\ last.outcome = "started")

\* A reconciliation threw while the next one was queued behind it.
C15_Witness ==
    last.op = "syncFailed" /\ syncQueued > 0

----------------------------------------------------------------------------
(* Saves of one document by the editor itself, no other writer: the save
   handler's refresh and the poll loop. *)

NextEcho ==
    \/ \E k \in OneKey : Open(k)
    \/ \E k \in OneKey : Edit(k)
    \/ \E k \in OneKey : Save(k)
    \/ \E k \in OneKey : SaveRefreshDone(k)
    \/ \E k \in OneKey : PromptAnswer(k)
    \/ \E k \in OneKey : RefreshDone(k)
    \/ SyncStep(AttachMayFail)
    \/ PollStep

SpecEcho == InitResource /\ [][NextEcho]_vars

PollSignal(rec, k) == rec.op = "signal" /\ rec.src = "poll" /\ rec.key = k

\* C17: when only the editor's own saves write the file, the poll sweep raises
\* no change signal for it.
C17_SaveRaisesNoPollSignal ==
    \A k \in OneKey : ~PollSignal(last, k)

C19_FocusNotStolen ==
    [][/\ last'.cmd = "show" => (cfg.stealFocusOnReload /\ active # last'.key)
       /\ last'.outcome = "skippedFocus" =>
            /\ ~cfg.stealFocusOnReload /\ active # last'.key
            /\ last'.cmd = None /\ active' = active /\ buf' = buf
       /\ last'.cmd = "revert" => (active' = last'.key /\ ~last'.cmdDirty)
       /\ \A k \in OneKey :
            (/\ evals'[k]["resourceFail"] < evals[k]["resourceFail"]
             /\ active # k /\ ~cfg.stealFocusOnReload)
               => (last'.outcome = "skippedFocus" /\ last'.key = k)]_vars

C19_Witness ==
    /\ last.op = "eval" /\ last.outcome = "skippedFocus" /\ open[last.key]
    /\ active # last.key /\ ~cfg.stealFocusOnReload
    /\ last.cmd = None /\ EvalCount(last.key) = 0

\* C20: a document whose fs.watch call threw in a reconciliation step has no
\* handle, and every document the step went through has a handle or is one of
\* those whose attach threw: the step went on past the failure, and it stopped
\* only at the end of the loop or at the stat of a document with no mtime.
C20_AttachFailureIsolated ==
    last.op = "sync" =>
        /\ last.threw \cap externalWatchers = {}
        /\ \A k \in last.threw : liveWatchers[k] = 0
        /\ last.made \subseteq externalWatchers
        /\ last.batch \subseteq (externalWatchers \cup last.threw)
        /\ sync # Idle => knownMtimes[sync.cur] = Absent

C20_Witness ==
    /\ last.op = "sync" /\ last.threw = {"a"} /\ last.made = {"b"}
    /\ last.batch = {"a", "b"} /\ sync = Idle
    /\ externalWatchers = {"b"}

====
